---- MODULE Spec2Model ----
(***************************************************************************)
(* NagaraTrack Lite dashboard: a state-machine model of the three pages    *)
(* (LiveMapPage, SystemStatusPage, RouteAnalytics) mounted one at a time   *)
(* by the router of App.js.                                                *)
(*                                                                         *)
(* Conventions.                                                            *)
(*  - Fractions of the health payload (system_load, memory_usage) are      *)
(*    carried in hundredths: 85 stands for 0.85, the threshold 0.8 is 80.  *)
(*  - A handler that awaits a request is two actions: the part before the  *)
(*    await (it puts a request in flight) and the continuation (one action *)
(*    for the resolved promise, one for the rejected promise).             *)
(*  - State updates made by one continuation are rendered once (React      *)
(*    batches them); the render is part of the action that caused it.      *)
(*  - A page that is unmounted loses its state; React ignores the state    *)
(*    updates of a continuation that runs after the unmount, so a request  *)
(*    that outlives its page is kept only as a count (orphans).            *)
(*  - Date.now() is the variable now; it advances in steps of TickMs.      *)
(***************************************************************************)
EXTENDS Integers, Sequences, FiniteSets, TLC

(***************************************************************************)
(* Bounds of the model.                                                    *)
(***************************************************************************)
MaxRequests == 3
MaxStatusRequests == 3
MaxMapRequests == 4
MaxAlertRequests == 3
MaxTicks == 1
MaxClicks == 1
MaxAlertClicks == 5
MaxHistFetches == 22
MaxHistFailures == 1
MaxAnalyticsRequests == 3
MaxTrackRequests == 4
MaxTrackClicks == 2

(***************************************************************************)
(* Program constants.                                                      *)
(***************************************************************************)
SystemLoadThreshold == 80
MemoryUsageThreshold == 80
ResponseTimeThreshold == 1000
HistoryKeep == 19
AlertKeep == 4
NotificationKeep == 4
NotificationTtlMs == 10000
DelayAlertMinutes == 5

\* The step of the clock: the lifetime of a notification.
TickMs == NotificationTtlMs

Pages == {"map", "status", "analytics"}

(***************************************************************************)
(* JavaScript helpers.                                                     *)
(***************************************************************************)
Min(a, b) == IF a < b THEN a ELSE b

\* Array.prototype.slice(-n): the last n elements (all of them if fewer).
SliceLast(s, n) == SubSeq(s, Len(s) - Min(Len(s), n) + 1, Len(s))

\* Array.prototype.slice(0, n): the first n elements (all of them if fewer).
SliceFirst(s, n) == SubSeq(s, 1, Min(Len(s), n))

\* x || 0 on a number: 0 is falsy and is replaced by 0.
OrZero(x) == IF x = 0 THEN 0 ELSE x

\* obj?.field on a record that may lack the field.
Field(obj, f) == IF f \in DOMAIN obj THEN obj[f] ELSE "undefined"

\* Math.abs on an integer.
MathAbs(x) == IF x < 0 THEN 0 - x ELSE x

\* list.reduce((sum, v) => sum + v[f], 0)
RECURSIVE SumField(_, _)
SumField(list, f) ==
    IF list = << >> THEN 0 ELSE Head(list)[f] + SumField(Tail(list), f)

(***************************************************************************)
(* The health source: the payloads GET /api/health can answer with.        *)
(***************************************************************************)
HealthPayload(st, db, rt, av, rpm, dbq, load, mem) ==
    [status |-> st, database_connected |-> db, api_response_time |-> rt,
     active_vehicles |-> av,
     advanced_metrics |-> [requests_per_minute |-> rpm,
                           database_queries_per_minute |-> dbq,
                           system_load |-> load, memory_usage |-> mem]]

HealthPayloads ==
    << HealthPayload("healthy",   TRUE,  300,  6, 120, 45, 50, 50),
       HealthPayload("healthy",   TRUE,  300,  5, 130, 50, 85, 50),
       HealthPayload("healthy",   TRUE,  1000, 4, 140, 55, 80, 80),
       HealthPayload("unhealthy", FALSE, 1500, 0, 150, 60, 85, 85),
       HealthPayload("warning",   TRUE,  300,  3, 0,   0,  50, 85) >>

HealthPayloadSet == {HealthPayloads[i] : i \in DOMAIN HealthPayloads}

\* What the source answers the request with sequence number seq: anything,
\* or, when the payloads rotate, the next one of the list.
HealthAnswers(L, seq) ==
    IF L.rotate THEN {L.health[(seq % Len(L.health)) + 1]}
    ELSE {L.health[i] : i \in DOMAIN L.health}

\* useState(null)
Null == [null |-> TRUE]

\* useState(null) for a state that holds an id (a string) otherwise.
NullId == "null"

\* The object the catch block of fetchHealthData stores.
FailedHealthData ==
    [status |-> "unhealthy", database_connected |-> FALSE,
     api_response_time |-> 0, active_vehicles |-> 0,
     total_routes |-> 0, total_stops |-> 0,
     advanced_metrics |-> [error |-> "Failed to fetch data"]]

EmptyHistory ==
    [apiRequests |-> <<>>, dbQueries |-> <<>>, vehicleCount |-> <<>>,
     systemLoad |-> <<>>, responseTime |-> <<>>]

(***************************************************************************)
(* The data source of the map and analytics pages: the lists GET /stops,   *)
(* GET /routes and GET /vehicles can answer with, and the results of       *)
(* GET /routes/{id}/optimize.                                              *)
(***************************************************************************)
Stop(id) == [stop_id |-> id, name |-> id]

Route(id, dist) == [id |-> id, distance |-> dist, coordinates |-> <<id, "raw">>]

Vehicle(id, rid, st, sp, dl, occ, nxt) ==
    [id |-> id, route_id |-> rid, status |-> st, speed |-> sp, delay |-> dl,
     occupancy |-> occ, next_stop |-> nxt]

StopLists == { << Stop("s1") >>, << Stop("s1"), Stop("s2") >> }

RouteLists == { << Route("r1", 10) >>, << Route("r1", 10), Route("r2", 8) >> }

VehicleLists ==
    { << >>,
      << Vehicle("v1", "r1", "active", 30, 0, 10, "s1") >>,
      << Vehicle("v1", "r1", "active", 50, 6, 20, "s2") >> }

\* The answers to the three requests of one fetchMapData call.
MapData ==
    { [stops |-> << Stop("s1") >>, routes |-> << Route("r1", 10) >>,
       vehicles |-> << >>],
      [stops |-> << Stop("s1"), Stop("s2") >>,
       routes |-> << Route("r1", 10), Route("r2", 8) >>,
       vehicles |-> << Vehicle("v1", "r1", "active", 30, 0, 10, "s1") >>],
      [stops |-> << Stop("s1"), Stop("s2") >>,
       routes |-> << Route("r1", 10) >>,
       vehicles |-> << Vehicle("v1", "r1", "active", 50, 6, 20, "s2") >>] }

\* The answers to the two requests of one fetchData call.
AnalyticsData == {[routes |-> d.routes, vehicles |-> d.vehicles] : d \in MapData}

\* A fleet on three routes, for the analytics page.
FleetRoutes == << Route("r1", 10), Route("r2", 8), Route("r3", 7) >>

FleetData ==
    { \* two active vehicles and a parked one on r1, none on r2, a parked one on r3
      [routes |-> FleetRoutes,
       vehicles |-> << Vehicle("v1", "r1", "active", 30, 0, 10, "s1"),
                       Vehicle("v2", "r1", "active", 50, 6, 20, "s2"),
                       Vehicle("v3", "r1", "maintenance", 0, 30, 0, "s1"),
                       Vehicle("v4", "r3", "maintenance", 10, 0, 5, "s2") >>],
      \* fast and full vehicles, early ones, r1 and r3 alike
      [routes |-> FleetRoutes,
       vehicles |-> << Vehicle("v1", "r1", "active", 60, -1, 50, "s1"),
                       Vehicle("v2", "r2", "active", 80, -3, 40, "s2"),
                       Vehicle("v3", "r3", "active", 60, 1, 50, "s1") >>],
      \* averages that are not whole numbers, a vehicle standing still
      [routes |-> FleetRoutes,
       vehicles |-> << Vehicle("v1", "r1", "active", 30, 2, 10, "s1"),
                       Vehicle("v2", "r1", "active", 31, 3, 11, "s2"),
                       Vehicle("v3", "r1", "active", 0, -2, 0, "s1"),
                       Vehicle("v4", "r2", "active", 0, 0, 0, "s1"),
                       Vehicle("v5", "r3", "active", 30, 0, 10, "s2"),
                       Vehicle("v6", "r3", "active", 31, 0, 11, "s2") >>],
      \* scores just above 80, 60 and 40: 80.29, 60.14 and 40.29
      [routes |-> FleetRoutes,
       vehicles |-> << Vehicle("v1", "r1", "active", 40, 0, 12, "s1"),
                       Vehicle("v2", "r2", "active", 12, 0, 13, "s2"),
                       Vehicle("v3", "r3", "active", 40, 5, 12, "s1") >>],
      \* no vehicles, no routes
      [routes |-> FleetRoutes, vehicles |-> << >>],
      [routes |-> << >>,
       vehicles |-> << Vehicle("v1", "r1", "active", 30, 0, 10, "s1") >>] }

\* The answers of GET /vehicles/{id}/track for a vehicle.
TrackEtas == {3, 7}

TrackingResults(vehicleId) ==
    {[vehicle_id |-> vehicleId, eta_next_stop |-> eta] : eta \in TrackEtas}

\* A map with two vehicles on the road and one in the depot.
TrackMapData ==
    { [stops |-> << Stop("s1") >>, routes |-> << Route("r1", 10) >>,
       vehicles |-> << Vehicle("v1", "r1", "active", 30, 0, 10, "s1"),
                       Vehicle("v2", "r1", "active", 50, 6, 20, "s1"),
                       Vehicle("v3", "r1", "maintenance", 0, 0, 0, "s1") >>] }

RouteIds == {"r1", "r2"}

OptimizationResults ==
    { [optimized_coordinates |-> << "opt-a" >>, time_saved |-> 6],
      [optimized_coordinates |-> << "opt-b" >>, time_saved |-> 4] }

Kinds == {"stops", "routes", "vehicles"}

VARIABLES
    page,             \* the page the router has mounted ("none" before the first)
    now,              \* Date.now()
    issued,           \* number of requests issued so far; a request's seq
    orphans,          \* requests in flight whose page has been unmounted
    ev,               \* the handler that ran last
    \* SystemStatusPage
    healthData, loading, refreshing, autoRefresh, historicalData, systemAlerts,
    refreshTimeouts,  \* pending setTimeout(() => setRefreshing(false), 500)
    healthIntervals,  \* active setInterval callbacks: the autoRefresh each captured
    healthInflight,   \* fetchHealthData calls awaiting axios.get
    histLog,          \* every health payload applied so far, with its time
    stopSeq,          \* value of issued when polling was stopped (0: it runs)
    rejected,         \* number of health requests rejected so far
    \* App
    routeOptimization,
    appActiveVehicles, \* App's activeVehicles: the map shows the vehicles
    \* LiveMapPage
    stops, routes, vehicles, mapLoading, optimizedRoutes, notifications,
    mapIntervals,     \* active intervals: "vehicle", "notification"
    mapInflight,      \* fetchMapData calls awaiting Promise.all
    pollInflight,     \* interval callbacks awaiting GET /vehicles
    optInflight,      \* handleRouteOptimization calls awaiting axios.get
    stopClicks,       \* number of clicks on a stop so far
    lastGood,         \* per kind: seq and data of the latest-issued fetch applied
    mapStats,         \* the four figures of the statistics cards
    selectedVehicle, trackingData,
    trackInflight,    \* handleVehicleTrack calls awaiting axios.get
    trackClicks,      \* number of clicks on a vehicle so far
    trackWanted,      \* history: the vehicle of the user's last click, none after a cancel
    \* RouteAnalytics
    aRoutes, aVehicles, aLoading,
    analytics,        \* Object.values(analytics): one record per route
    timeRange, sortBy,
    aIntervals,       \* number of active setInterval(fetchData, 60000)
    aInflight         \* fetchData calls awaiting Promise.all

statusVars == <<healthData, loading, refreshing, autoRefresh, historicalData,
                systemAlerts, refreshTimeouts, healthIntervals, healthInflight,
                histLog, stopSeq, rejected>>

trackVars == <<selectedVehicle, trackingData, trackInflight, trackClicks,
               trackWanted>>

mapVars == <<stops, routes, vehicles, mapLoading, optimizedRoutes, notifications,
             mapIntervals, mapInflight, pollInflight, optInflight, stopClicks,
             lastGood, mapStats, trackVars>>

analyticsVars == <<aRoutes, aVehicles, aLoading, analytics, timeRange, sortBy,
                   aIntervals, aInflight>>

vars == <<page, now, issued, orphans, ev, routeOptimization, appActiveVehicles,
          statusVars, mapVars, analyticsVars>>

(***************************************************************************)
(* SystemStatusPage                                                        *)
(***************************************************************************)

\* checkSystemAlerts with the system-load rule written >= instead of >.
checkSystemAlertsInclusive(h) ==
    LET metrics == h.advanced_metrics
        a1 == IF metrics.system_load >= SystemLoadThreshold
              THEN << [type |-> "warning", message |-> "High system load",
                       value |-> metrics.system_load] >>
              ELSE << >>
        a2 == IF metrics.memory_usage > MemoryUsageThreshold
              THEN << [type |-> "warning", message |-> "High memory usage",
                       value |-> metrics.memory_usage] >>
              ELSE << >>
        a3 == IF h.api_response_time > ResponseTimeThreshold
              THEN << [type |-> "error", message |-> "Slow API response",
                       value |-> h.api_response_time] >>
              ELSE << >>
        a4 == IF ~h.database_connected
              THEN << [type |-> "error", message |-> "Database connection lost",
                       value |-> 0] >>
              ELSE << >>
    IN  a1 \o a2 \o a3 \o a4

\* checkSystemAlerts: the list handed to setSystemAlerts.
checkSystemAlerts(h) ==
    LET metrics == h.advanced_metrics
        a1 == IF metrics.system_load > SystemLoadThreshold
              THEN << [type |-> "warning", message |-> "High system load",
                       value |-> metrics.system_load] >>
              ELSE << >>
        a2 == IF metrics.memory_usage > MemoryUsageThreshold
              THEN << [type |-> "warning", message |-> "High memory usage",
                       value |-> metrics.memory_usage] >>
              ELSE << >>
        a3 == IF h.api_response_time > ResponseTimeThreshold
              THEN << [type |-> "error", message |-> "Slow API response",
                       value |-> h.api_response_time] >>
              ELSE << >>
        a4 == IF ~h.database_connected
              THEN << [type |-> "error", message |-> "Database connection lost",
                       value |-> 0] >>
              ELSE << >>
    IN  a1 \o a2 \o a3 \o a4

\* addAlert keeping five earlier alerts instead of four.
addAlertKeepFive(prev, message, type, t) ==
    << [type |-> type, message |-> message, timestamp |-> t] >>
        \o SliceFirst(prev, AlertKeep + 1)

\* addAlert called without its second argument: type = 'info'.
addAlertDefaultType(prev, message, type, t) ==
    << [type |-> "info", message |-> message, timestamp |-> t] >>
        \o SliceFirst(prev, AlertKeep)

\* addAlert: the updater handed to setSystemAlerts.
addAlert(prev, message, type, t) ==
    << [type |-> type, message |-> message, timestamp |-> t] >>
        \o SliceFirst(prev, AlertKeep)

\* The updater with slice(-20) instead of slice(-19).
AppendPointKeepTwenty(series, t, v) ==
    Append(SliceLast(series, HistoryKeep + 1), [time |-> t, value |-> OrZero(v)])

\* One series of the setHistoricalData updater.
AppendPoint(series, t, v) ==
    Append(SliceLast(series, HistoryKeep), [time |-> t, value |-> OrZero(v)])

\* An updater that forgets one of the five series: no point for the
\* response time.
UpdateHistoryFourSeries(prev, h, t) ==
    [apiRequests  |-> AppendPoint(prev.apiRequests, t,
                                  h.advanced_metrics.requests_per_minute),
     dbQueries    |-> AppendPoint(prev.dbQueries, t,
                                  h.advanced_metrics.database_queries_per_minute),
     vehicleCount |-> AppendPoint(prev.vehicleCount, t, h.active_vehicles),
     systemLoad   |-> AppendPoint(prev.systemLoad, t,
                                  h.advanced_metrics.system_load),
     responseTime |-> prev.responseTime]

\* The setHistoricalData updater of fetchHealthData.
UpdateHistory(prev, h, t) ==
    [apiRequests  |-> AppendPoint(prev.apiRequests, t,
                                  h.advanced_metrics.requests_per_minute),
     dbQueries    |-> AppendPoint(prev.dbQueries, t,
                                  h.advanced_metrics.database_queries_per_minute),
     vehicleCount |-> AppendPoint(prev.vehicleCount, t, h.active_vehicles),
     systemLoad   |-> AppendPoint(prev.systemLoad, t,
                                  h.advanced_metrics.system_load),
     responseTime |-> AppendPoint(prev.responseTime, t, h.api_response_time)]

\* overallStatus without the test for an error among the alerts.
overallStatusAnyAlertUnhealthy ==
    IF Len(systemAlerts) > 0 THEN "unhealthy" ELSE Field(healthData, "status")

\* const overallStatus = ... (computed by every render that is past the
\* loading screen)
overallStatus ==
    IF Len(systemAlerts) > 0
    THEN IF \E i \in DOMAIN systemAlerts : systemAlerts[i].type = "error"
         THEN "unhealthy" ELSE "warning"
    ELSE Field(healthData, "status")

\* useState initial values of SystemStatusPage.
StatusInitial ==
    /\ healthData = Null
    /\ loading = TRUE
    /\ refreshing = FALSE
    /\ refreshTimeouts = 0
    /\ autoRefresh = TRUE
    /\ historicalData = EmptyHistory
    /\ systemAlerts = << >>
    /\ healthIntervals = << >>
    /\ healthInflight = {}
    /\ histLog = << >>
    /\ stopSeq = 0
    /\ rejected = 0

\* The same values as a next-state assignment: the state of a page instance
\* is discarded when the page is unmounted.
StatusReset ==
    /\ healthData' = Null
    /\ loading' = TRUE
    /\ refreshing' = FALSE
    /\ refreshTimeouts' = 0
    /\ autoRefresh' = TRUE
    /\ historicalData' = EmptyHistory
    /\ systemAlerts' = << >>
    /\ healthIntervals' = << >>
    /\ healthInflight' = {}
    /\ histLog' = << >>
    /\ stopSeq' = 0
    /\ rejected' = 0

\* fetchHealthData up to its await: the request it puts in flight.
HealthRequest(showRefresh) == [seq |-> issued + 1, showRefresh |-> showRefresh]

\* The interval callback: if (autoRefresh) fetchHealthData().
HealthIntervalTick(L) ==
    /\ page = "status"
    /\ \E i \in DOMAIN healthIntervals :
         IF healthIntervals[i]
         THEN /\ issued < L.requests
              /\ (L.sequential => healthInflight = {})
              /\ issued' = issued + 1
              /\ healthInflight' = healthInflight \cup {HealthRequest(FALSE)}
              /\ ev' = [op |-> "HealthIntervalTick", seq |-> issued + 1]
         ELSE /\ UNCHANGED <<issued, healthInflight>>
              /\ ev' = [op |-> "HealthIntervalTick", seq |-> 0]
    /\ UNCHANGED <<page, now, orphans, routeOptimization, appActiveVehicles, healthData, loading,
                   refreshing, refreshTimeouts, autoRefresh, historicalData,
                   systemAlerts, healthIntervals, histLog, stopSeq, rejected, mapVars,
                   analyticsVars>>

\* handleRefresh: fetchHealthData(true). The button is rendered once loading
\* is over and is disabled while refreshing.
handleRefresh(L) ==
    /\ page = "status"
    /\ ~loading
    /\ ~refreshing
    /\ issued < L.requests
    /\ (L.sequential => healthInflight = {})
    /\ refreshing' = TRUE
    /\ issued' = issued + 1
    /\ healthInflight' = healthInflight \cup {HealthRequest(TRUE)}
    /\ ev' = [op |-> "handleRefresh", seq |-> issued + 1]
    /\ UNCHANGED <<page, now, orphans, routeOptimization, appActiveVehicles, healthData, loading,
                   refreshTimeouts, autoRefresh, historicalData, systemAlerts,
                   healthIntervals, histLog, stopSeq, rejected, mapVars, analyticsVars>>

\* An effect that returns no cleanup: the interval of its earlier run stays
\* active next to the new one.
ToggleAutoRefreshKeepsInterval(L) ==
    /\ page = "status"
    /\ ~loading
    /\ issued < L.requests
    /\ (L.sequential => healthInflight = {})
    /\ autoRefresh' = ~autoRefresh
    /\ healthIntervals' = Append(healthIntervals, ~autoRefresh)
    /\ issued' = issued + 1
    /\ healthInflight' = healthInflight \cup {HealthRequest(FALSE)}
    /\ stopSeq' = IF autoRefresh THEN issued ELSE 0
    /\ ev' = [op |-> "ToggleAutoRefresh", seq |-> issued + 1]
    /\ UNCHANGED <<page, now, orphans, routeOptimization, appActiveVehicles, healthData, loading,
                   refreshing, refreshTimeouts, historicalData, systemAlerts,
                   histLog, rejected, mapVars, analyticsVars>>

\* onClick of the auto-refresh toggle: setAutoRefresh(!autoRefresh); the
\* effect depends on autoRefresh, so its cleanup clears the interval and the
\* effect runs again: a fetch, and a new interval capturing the new value.
ToggleAutoRefresh(L) ==
    /\ page = "status"
    /\ ~loading
    /\ issued < L.requests
    /\ (L.sequential => healthInflight = {})
    /\ autoRefresh' = ~autoRefresh
    /\ healthIntervals' = << ~autoRefresh >>
    /\ issued' = issued + 1
    /\ healthInflight' = healthInflight \cup {HealthRequest(FALSE)}
    /\ stopSeq' = IF autoRefresh THEN issued ELSE 0
    /\ ev' = [op |-> "ToggleAutoRefresh", seq |-> issued + 1]
    /\ UNCHANGED <<page, now, orphans, routeOptimization, appActiveVehicles, healthData, loading,
                   refreshing, refreshTimeouts, historicalData, systemAlerts,
                   histLog, rejected, mapVars, analyticsVars>>

\* The finally block of fetchHealthData.
HealthFinally(r) ==
    /\ loading' = FALSE
    /\ refreshTimeouts' = IF r.showRefresh THEN refreshTimeouts + 1
                          ELSE refreshTimeouts

\* fetchHealthData after the await, axios.get resolved with payload h.
HealthResolved(r, h) ==
    /\ page = "status"
    /\ r \in healthInflight
    /\ healthInflight' = healthInflight \ {r}
    /\ healthData' = h
    /\ systemAlerts' = checkSystemAlerts(h)
    /\ historicalData' = UpdateHistory(historicalData, h, now)
    /\ histLog' = Append(histLog, [time |-> now, data |-> h])
    /\ HealthFinally(r)
    /\ ev' = [op |-> "HealthResolved", seq |-> r.seq, data |-> h]
    /\ UNCHANGED <<page, now, issued, orphans, routeOptimization, appActiveVehicles, refreshing,
                   autoRefresh, healthIntervals, stopSeq, rejected, mapVars,
                   analyticsVars>>

\* fetchHealthData after the await, axios.get rejected: the catch block.
HealthRejected(r, L) ==
    /\ page = "status"
    /\ r \in healthInflight
    /\ rejected < L.failures
    /\ rejected' = rejected + 1
    /\ healthInflight' = healthInflight \ {r}
    /\ healthData' = FailedHealthData
    /\ systemAlerts' = addAlert(systemAlerts,
                                "Failed to fetch system health data", "error", now)
    /\ HealthFinally(r)
    /\ ev' = [op |-> "HealthRejected", seq |-> r.seq]
    /\ UNCHANGED <<page, now, issued, orphans, routeOptimization, appActiveVehicles, refreshing,
                   autoRefresh, historicalData, healthIntervals, histLog, stopSeq,
                   refreshing, mapVars, analyticsVars>>

\* setTimeout(() => setRefreshing(false), 500) fires.
RefreshTimeout ==
    /\ page = "status"
    /\ refreshTimeouts > 0
    /\ refreshTimeouts' = refreshTimeouts - 1
    /\ refreshing' = FALSE
    /\ ev' = [op |-> "RefreshTimeout"]
    /\ UNCHANGED <<page, now, issued, orphans, routeOptimization, appActiveVehicles, healthData,
                   loading, autoRefresh, historicalData, systemAlerts,
                   healthIntervals, healthInflight, histLog, stopSeq, rejected,
                   mapVars, analyticsVars>>

(***************************************************************************)
(* LiveMapPage                                                             *)
(***************************************************************************)
NoLastGood == [k \in Kinds |-> [seq |-> 0, data |-> << >>]]

\* A JavaScript number that is an integer, and NaN.
Num(v) == [nan |-> FALSE, value |-> v]

NaN == [nan |-> TRUE, value |-> 0]

MapOnTimeToleranceMinutes == 2

\* Math.round(num / den * factor) for integers num, den >= 0: 0 / 0 is NaN and
\* Math.round(NaN) is NaN.
RoundedQuotient(num, den, factor) ==
    IF den = 0 THEN NaN
    ELSE Num((2 * num * factor + den) \div (2 * den))

\* useState initial value of mapStats.
InitialMapStats ==
    [activeVehicles |-> 0, totalRoutes |-> 0, averageSpeed |-> Num(0),
     onTimePerformance |-> Num(0)]

\* The three figures both fetchMapData and the vehicle poll compute from a
\* vehicle list.
VehicleStats(list) ==
    [activeVehicles |-> Len(SelectSeq(list, LAMBDA v : v.status = "active")),
     averageSpeed |-> RoundedQuotient(SumField(list, "speed"), Len(list), 1),
     onTimePerformance |->
         RoundedQuotient(
             Len(SelectSeq(list,
                     LAMBDA v : MathAbs(v.delay) <= MapOnTimeToleranceMinutes)),
             Len(list), 100)]

\* setMapStats({...}) of fetchMapData.
FetchStats(routesData, vehiclesData) ==
    LET st == VehicleStats(vehiclesData)
    IN  [activeVehicles |-> st.activeVehicles,
         totalRoutes |-> Len(routesData),
         averageSpeed |-> st.averageSpeed,
         onTimePerformance |-> st.onTimePerformance]

\* setMapStats(prev => ({...prev, ...})) of the vehicle poll.
PollStats(prev, newVehicles) ==
    LET st == VehicleStats(newVehicles)
    IN  [prev EXCEPT !.activeVehicles = st.activeVehicles,
                     !.averageSpeed = st.averageSpeed,
                     !.onTimePerformance = st.onTimePerformance]

\* useState initial values of LiveMapPage.
MapInitial ==
    /\ stops = << >>
    /\ routes = << >>
    /\ vehicles = << >>
    /\ mapLoading = TRUE
    /\ optimizedRoutes = << >>
    /\ notifications = << >>
    /\ mapIntervals = {}
    /\ mapInflight = {}
    /\ pollInflight = {}
    /\ optInflight = {}
    /\ stopClicks = 0
    /\ lastGood = NoLastGood
    /\ mapStats = InitialMapStats
    /\ selectedVehicle = NullId
    /\ trackingData = Null
    /\ trackInflight = {}
    /\ trackClicks = 0
    /\ trackWanted = NullId

MapReset ==
    /\ stops' = << >>
    /\ routes' = << >>
    /\ vehicles' = << >>
    /\ mapLoading' = TRUE
    /\ optimizedRoutes' = << >>
    /\ notifications' = << >>
    /\ mapIntervals' = {}
    /\ mapInflight' = {}
    /\ pollInflight' = {}
    /\ optInflight' = {}
    /\ stopClicks' = 0
    /\ lastGood' = NoLastGood
    /\ mapStats' = InitialMapStats
    /\ selectedVehicle' = NullId
    /\ trackingData' = Null
    /\ trackInflight' = {}
    /\ trackClicks' = 0
    /\ trackWanted' = NullId

Message(text, num, name) == [text |-> text, num |-> num, name |-> name]

\* addNotification: the updater handed to setNotifications.
addNotification(prev, message, type, t) ==
    << [id |-> t, message |-> message, type |-> type, timestamp |-> t] >>
        \o SliceFirst(prev, NotificationKeep)

\* The vehicles the interval callback of startVehicleUpdates sees: the
\* callback is created once, by the mount effect, and closes over the
\* vehicles of the first render.
pollClosureVehicles == << >>

\* newVehicles.forEach(...) of the interval callback: the notification list
\* after the delayed-vehicle check.
RECURSIVE CheckDelayed(_, _, _, _)
CheckDelayed(newVehicles, old, notifs, t) ==
    IF newVehicles = << >> THEN notifs
    ELSE LET vehicle == Head(newVehicles)
             found == \E i \in DOMAIN old :
                          /\ old[i].id = vehicle.id
                          /\ vehicle.delay > DelayAlertMinutes
                          /\ (LET first == CHOOSE j \in DOMAIN old :
                                    /\ old[j].id = vehicle.id
                                    /\ \A k \in 1..(j - 1) : old[k].id # vehicle.id
                              IN  old[first].delay <= DelayAlertMinutes)
         IN  CheckDelayed(Tail(newVehicles), old,
                 IF found
                 THEN addNotification(notifs,
                          Message("is now minutes late", vehicle.delay, vehicle.id),
                          "warning", t)
                 ELSE notifs, t)

\* getRouteCoordinates: the coordinates a route is drawn with.
getRouteCoordinates(route) ==
    IF routeOptimization /\ route.id \in DOMAIN optimizedRoutes
    THEN optimizedRoutes[route.id].optimized_coordinates
    ELSE route.coordinates

\* getRouteColor: green for a route drawn optimized.
getRouteColor(route) ==
    IF routeOptimization /\ route.id \in DOMAIN optimizedRoutes
    THEN "#10b981" ELSE "#3b82f6"

\* A render that asks for the optimization of every route, optimized or not.
RenderRequestsUncached(rts, optimized, base) ==
    {[seq |-> base + i, routeId |-> rts[i].id] : i \in DOMAIN rts}

\* The routes.map(...) of a render that is past the loading screen: one
\* handleRouteOptimization call, hence one request, for every route that has
\* no entry in optimizedRoutes while routeOptimization is on.
RECURSIVE RenderRequests(_, _, _)
RenderRequests(rts, optimized, base) ==
    IF rts = << >> THEN {}
    ELSE IF Head(rts).id \in DOMAIN optimized
         THEN RenderRequests(Tail(rts), optimized, base)
         ELSE {[seq |-> base + 1, routeId |-> Head(rts).id]}
                  \cup RenderRequests(Tail(rts), optimized, base + 1)

\* The render that follows a state or prop change of the mounted map page,
\* given the values it renders and the requests already issued by the action.
Render(L, ld, ropt, rts, optimized, inflight, base) ==
    LET new == IF ~ld /\ ropt THEN RenderRequests(rts, optimized, base) ELSE {}
    IN  /\ base + Cardinality(new) <= L.requests
        /\ optInflight' = inflight \cup new
        /\ issued' = base + Cardinality(new)

\* A catch block that stores what the requests that did answer returned.
AfterMapFailurePartial(cur, failed, d) ==
    [k \in Kinds |-> IF k = failed THEN cur[k] ELSE d[k]]

\* A catch block that empties the snapshot whose request failed.
AfterMapFailureClear(cur, failed, d) ==
    [k \in Kinds |-> IF k = failed THEN << >> ELSE cur[k]]

\* What the catch block of fetchMapData leaves in stops, routes, vehicles
\* when the request of kind failed was rejected and the others answered d.
AfterMapFailure(cur, failed, d) == cur

\* The snapshot a successful fetch of the kinds ks leaves in lastGood.
NoteGood(lg, ks, seq, d) ==
    [k \in Kinds |-> IF k \in ks /\ seq > lg[k].seq
                     THEN [seq |-> seq, data |-> d[k]] ELSE lg[k]]

\* fetchMapData after the await, Promise.all resolved with d.
MapFetchResolved(r, d, L) ==
    /\ page = "map"
    /\ r \in mapInflight
    /\ mapInflight' = mapInflight \ {r}
    /\ stops' = d.stops
    /\ routes' = d.routes
    /\ vehicles' = d.vehicles
    /\ mapStats' = FetchStats(d.routes, d.vehicles)
    /\ mapLoading' = FALSE
    /\ lastGood' = NoteGood(lastGood, Kinds, r.seq, d)
    /\ Render(L, FALSE, routeOptimization, d.routes, optimizedRoutes, optInflight, issued)
    /\ ev' = [op |-> "MapFetchResolved", seq |-> r.seq]
    /\ UNCHANGED <<page, now, orphans, routeOptimization, appActiveVehicles, optimizedRoutes,
                   notifications, mapIntervals, pollInflight, stopClicks,
                   statusVars, analyticsVars, trackVars>>

\* fetchMapData after the await, Promise.all rejected because the request of
\* kind failed was; d holds what the other requests answered.
MapFetchRejected(r, failed, d, L) ==
    /\ page = "map"
    /\ r \in mapInflight
    /\ mapInflight' = mapInflight \ {r}
    /\ LET after == AfterMapFailure([stops |-> stops, routes |-> routes,
                                     vehicles |-> vehicles], failed, d)
       IN  /\ stops' = after.stops
           /\ routes' = after.routes
           /\ vehicles' = after.vehicles
           /\ Render(L, FALSE, routeOptimization, after.routes, optimizedRoutes,
                     optInflight, issued)
    /\ notifications' = addNotification(notifications,
                            Message("Error fetching map data", 0, ""), "error", now)
    /\ mapLoading' = FALSE
    /\ mapStats' = mapStats
    /\ ev' = [op |-> "MapFetchRejected", seq |-> r.seq, failed |-> failed]
    /\ UNCHANGED <<page, now, orphans, routeOptimization, appActiveVehicles, optimizedRoutes,
                   mapIntervals, pollInflight, stopClicks, lastGood, statusVars,
                   analyticsVars, trackVars>>

\* App.handleRefresh (the sidebar's Refresh Data) with the map page mounted:
\* the new lastUpdate prop renders the page, then the effect that depends on
\* lastUpdate calls fetchMapData, which sets loading.
SidebarRefresh(L) ==
    /\ page = "map"
    /\ LET new == IF ~mapLoading /\ routeOptimization
                  THEN RenderRequests(routes, optimizedRoutes, issued) ELSE {}
           n == Cardinality(new)
       IN  /\ issued + n + 1 <= L.requests
           /\ optInflight' = optInflight \cup new
           /\ mapInflight' = mapInflight \cup {[seq |-> issued + n + 1]}
           /\ issued' = issued + n + 1
           /\ ev' = [op |-> "SidebarRefresh", seq |-> issued + n + 1]
    /\ mapLoading' = TRUE
    /\ UNCHANGED <<page, now, orphans, routeOptimization, appActiveVehicles, stops, routes, vehicles, mapStats,
                   optimizedRoutes, notifications, mapIntervals, pollInflight,
                   stopClicks, lastGood, statusVars, analyticsVars, trackVars>>

\* The interval callback of startVehicleUpdates up to its await.
VehicleIntervalTick(L) ==
    /\ page = "map"
    /\ "vehicle" \in mapIntervals
    /\ issued < L.requests
    /\ issued' = issued + 1
    /\ pollInflight' = pollInflight \cup {[seq |-> issued + 1]}
    /\ ev' = [op |-> "VehicleIntervalTick", seq |-> issued + 1]
    /\ UNCHANGED <<page, now, orphans, routeOptimization, appActiveVehicles, stops, routes, vehicles, mapStats,
                   mapLoading, optimizedRoutes, notifications, mapIntervals,
                   mapInflight, optInflight, stopClicks, lastGood, statusVars,
                   analyticsVars, trackVars>>

\* The interval callback after the await, GET /vehicles resolved.
VehiclePollResolved(r, newVehicles, L) ==
    /\ page = "map"
    /\ r \in pollInflight
    /\ pollInflight' = pollInflight \ {r}
    /\ notifications' = CheckDelayed(newVehicles, pollClosureVehicles,
                                     notifications, now)
    /\ vehicles' = newVehicles
    /\ mapStats' = PollStats(mapStats, newVehicles)
    /\ lastGood' = NoteGood(lastGood, {"vehicles"}, r.seq,
                            [vehicles |-> newVehicles])
    /\ Render(L, mapLoading, routeOptimization, routes, optimizedRoutes, optInflight,
              issued)
    /\ ev' = [op |-> "VehiclePollResolved", seq |-> r.seq]
    /\ UNCHANGED <<page, now, orphans, routeOptimization, appActiveVehicles, stops, routes,
                   mapLoading, optimizedRoutes, mapIntervals, mapInflight,
                   stopClicks, statusVars, analyticsVars, trackVars>>

\* A catch block that gives up polling: clearInterval(vehicleUpdateInterval.current).
VehiclePollRejectedStopsPolling(r) ==
    /\ page = "map"
    /\ r \in pollInflight
    /\ pollInflight' = pollInflight \ {r}
    /\ mapIntervals' = mapIntervals \ {"vehicle"}
    /\ ev' = [op |-> "VehiclePollRejected", seq |-> r.seq]
    /\ UNCHANGED <<page, now, issued, orphans, routeOptimization, appActiveVehicles, stops, routes,
                   vehicles, mapStats, mapLoading, optimizedRoutes, notifications,
                   mapInflight, optInflight, stopClicks, lastGood,
                   statusVars, analyticsVars, trackVars>>

\* The interval callback after the await, GET /vehicles rejected: the catch
\* block only logs.
VehiclePollRejected(r) ==
    /\ page = "map"
    /\ r \in pollInflight
    /\ pollInflight' = pollInflight \ {r}
    /\ ev' = [op |-> "VehiclePollRejected", seq |-> r.seq]
    /\ UNCHANGED <<page, now, issued, orphans, routeOptimization, appActiveVehicles, stops, routes,
                   vehicles, mapStats, mapLoading, optimizedRoutes, notifications,
                   mapIntervals, mapInflight, optInflight, stopClicks, lastGood,
                   statusVars, analyticsVars, trackVars>>

\* The interval callback of startNotificationCheck: filter always returns a
\* new array, so the page renders again.
NotificationCheck(L) ==
    /\ page = "map"
    /\ "notification" \in mapIntervals
    /\ notifications' = SelectSeq(notifications,
                            LAMBDA n : now - n.timestamp < NotificationTtlMs)
    /\ Render(L, mapLoading, routeOptimization, routes, optimizedRoutes, optInflight,
              issued)
    /\ ev' = [op |-> "NotificationCheck"]
    /\ UNCHANGED <<page, now, orphans, routeOptimization, appActiveVehicles, stops, routes, vehicles, mapStats,
                   mapLoading, optimizedRoutes, mapIntervals, mapInflight,
                   pollInflight, stopClicks, lastGood, statusVars, analyticsVars, trackVars>>

\* handleRouteOptimization after the await, axios.get resolved with res.
OptimizeResolved(r, res, L) ==
    /\ page = "map"
    /\ r \in optInflight
    /\ LET optimized == [id \in DOMAIN optimizedRoutes \cup {r.routeId} |->
                            IF id = r.routeId THEN res ELSE optimizedRoutes[id]]
       IN  /\ optimizedRoutes' = optimized
           /\ Render(L, mapLoading, routeOptimization, routes, optimized,
                     optInflight \ {r}, issued)
    /\ notifications' = addNotification(notifications,
                            Message("Route optimized - min saved!", res.time_saved, ""),
                            "success", now)
    /\ ev' = [op |-> "OptimizeResolved", seq |-> r.seq, routeId |-> r.routeId]
    /\ UNCHANGED <<page, now, orphans, routeOptimization, appActiveVehicles, stops, routes, vehicles, mapStats,
                   mapLoading, mapIntervals, mapInflight, pollInflight, stopClicks,
                   lastGood, statusVars, analyticsVars, trackVars>>

\* handleRouteOptimization after the await, axios.get rejected.
OptimizeRejected(r, L) ==
    /\ page = "map"
    /\ r \in optInflight
    /\ notifications' = addNotification(notifications,
                            Message("Error optimizing route", 0, ""), "error", now)
    /\ Render(L, mapLoading, routeOptimization, routes, optimizedRoutes,
              optInflight \ {r}, issued)
    /\ ev' = [op |-> "OptimizeRejected", seq |-> r.seq, routeId |-> r.routeId]
    /\ UNCHANGED <<page, now, orphans, routeOptimization, appActiveVehicles, stops, routes, vehicles, mapStats,
                   mapLoading, optimizedRoutes, mapIntervals, mapInflight,
                   pollInflight, stopClicks, lastGood, statusVars, analyticsVars, trackVars>>

\* handleStopClick: a notification with the number of vehicles heading to
\* the stop.
handleStopClick(stop, L) ==
    /\ page = "map"
    /\ ~mapLoading
    /\ stopClicks < L.clicks
    /\ stopClicks' = stopClicks + 1
    /\ LET vehiclesAtStop == SelectSeq(vehicles,
                                 LAMBDA v : v.next_stop = stop.stop_id)
       IN  notifications' = addNotification(notifications,
               Message("vehicles approaching", Len(vehiclesAtStop), stop.name),
               "info", now)
    /\ Render(L, mapLoading, routeOptimization, routes, optimizedRoutes, optInflight,
              issued)
    /\ ev' = [op |-> "handleStopClick"]
    /\ UNCHANGED <<page, now, orphans, routeOptimization, appActiveVehicles, stops, routes, vehicles, mapStats,
                   mapLoading, optimizedRoutes, mapIntervals, mapInflight,
                   pollInflight, lastGood, statusVars, analyticsVars, trackVars>>

\* App.onToggleOptimization (the sidebar's Optimize Routes switch): the new
\* prop renders the map page when it is the mounted page.
ToggleOptimization(L) ==
    /\ page # "none"
    /\ routeOptimization' = ~routeOptimization
    /\ IF page = "map"
       THEN Render(L, mapLoading, ~routeOptimization, routes, optimizedRoutes,
                   optInflight, issued)
       ELSE UNCHANGED <<optInflight, issued>>
    /\ ev' = [op |-> "ToggleOptimization"]
    /\ UNCHANGED <<page, now, orphans, appActiveVehicles, stops, routes, vehicles, mapStats, mapLoading,
                   optimizedRoutes, notifications, mapIntervals, mapInflight,
                   pollInflight, stopClicks, lastGood, statusVars, analyticsVars, trackVars>>

\* handleVehicleTrack up to its await: a click on the marker of a vehicle or
\* on Track Vehicle in its popup. The markers are those of the active
\* vehicles, drawn while App's activeVehicles is on.
handleVehicleTrack(vehicleId, L) ==
    /\ page = "map"
    /\ ~mapLoading
    /\ appActiveVehicles
    /\ \E i \in DOMAIN vehicles :
           vehicles[i].id = vehicleId /\ vehicles[i].status = "active"
    /\ trackClicks < L.trackClicks
    /\ issued < L.requests
    /\ trackClicks' = trackClicks + 1
    /\ trackWanted' = vehicleId
    /\ issued' = issued + 1
    /\ trackInflight' = trackInflight \cup {[seq |-> issued + 1, vehicleId |-> vehicleId]}
    /\ ev' = [op |-> "handleVehicleTrack", seq |-> issued + 1, vehicleId |-> vehicleId]
    /\ UNCHANGED <<page, now, orphans, routeOptimization, appActiveVehicles, stops,
                   routes, vehicles, mapStats, mapLoading, optimizedRoutes, notifications,
                   mapIntervals, mapInflight, pollInflight, optInflight, stopClicks,
                   lastGood, selectedVehicle, trackingData, statusVars,
                   analyticsVars>>

\* handleVehicleTrack after the await, axios.get resolved with data.
TrackResolved(r, data, L) ==
    /\ page = "map"
    /\ r \in trackInflight
    /\ trackInflight' = trackInflight \ {r}
    /\ trackingData' = data
    /\ selectedVehicle' = r.vehicleId
    /\ notifications' = addNotification(notifications,
                            Message("Vehicle tracking activated", 0, ""), "success", now)
    /\ Render(L, mapLoading, routeOptimization, routes, optimizedRoutes, optInflight,
              issued)
    /\ ev' = [op |-> "TrackResolved", seq |-> r.seq, vehicleId |-> r.vehicleId]
    /\ UNCHANGED <<page, now, orphans, routeOptimization, appActiveVehicles, stops,
                   routes, vehicles, mapStats, mapLoading, optimizedRoutes, mapIntervals,
                   mapInflight, pollInflight, stopClicks, lastGood, trackClicks,
                   trackWanted, statusVars, analyticsVars>>

\* The catch block of the page's earlier variant: it only logs.
TrackRejectedSilent(r, L) ==
    /\ page = "map"
    /\ r \in trackInflight
    /\ trackInflight' = trackInflight \ {r}
    /\ ev' = [op |-> "TrackRejected", seq |-> r.seq, vehicleId |-> r.vehicleId]
    /\ UNCHANGED <<page, now, issued, orphans, routeOptimization, appActiveVehicles,
                   stops, routes, vehicles, mapStats, mapLoading, optimizedRoutes,
                   notifications, mapIntervals, mapInflight, pollInflight,
                   optInflight, stopClicks, lastGood, selectedVehicle, trackingData,
                   trackClicks, trackWanted, statusVars, analyticsVars>>

\* handleVehicleTrack after the await, axios.get rejected.
TrackRejected(r, L) ==
    /\ page = "map"
    /\ r \in trackInflight
    /\ trackInflight' = trackInflight \ {r}
    /\ notifications' = addNotification(notifications,
                            Message("Error tracking vehicle", 0, ""), "error", now)
    /\ Render(L, mapLoading, routeOptimization, routes, optimizedRoutes, optInflight,
              issued)
    /\ ev' = [op |-> "TrackRejected", seq |-> r.seq, vehicleId |-> r.vehicleId]
    /\ UNCHANGED <<page, now, orphans, routeOptimization, appActiveVehicles, stops,
                   routes, vehicles, mapStats, mapLoading, optimizedRoutes, mapIntervals,
                   mapInflight, pollInflight, stopClicks, lastGood, selectedVehicle,
                   trackingData, trackClicks, trackWanted, statusVars, analyticsVars>>

\* onClick of the tracking panel's close button.
CancelTracking(L) ==
    /\ page = "map"
    /\ ~mapLoading
    /\ trackingData # Null
    /\ trackingData' = Null
    /\ selectedVehicle' = NullId
    /\ trackWanted' = NullId
    /\ Render(L, mapLoading, routeOptimization, routes, optimizedRoutes, optInflight,
              issued)
    /\ ev' = [op |-> "CancelTracking"]
    /\ UNCHANGED <<page, now, orphans, routeOptimization, appActiveVehicles, stops,
                   routes, vehicles, mapStats, mapLoading, optimizedRoutes, notifications,
                   mapIntervals, mapInflight, pollInflight, stopClicks, lastGood,
                   trackInflight, trackClicks, statusVars, analyticsVars>>

\* App.onToggleVehicles (the sidebar's Active Vehicles switch): the new prop
\* renders the map page when it is the mounted page.
ToggleVehicles(L) ==
    /\ page # "none"
    /\ appActiveVehicles' = ~appActiveVehicles
    /\ IF page = "map"
       THEN Render(L, mapLoading, routeOptimization, routes, optimizedRoutes,
                   optInflight, issued)
       ELSE UNCHANGED <<optInflight, issued>>
    /\ ev' = [op |-> "ToggleVehicles"]
    /\ UNCHANGED <<page, now, orphans, routeOptimization, stops, routes, vehicles, mapStats,
                   mapLoading, optimizedRoutes, notifications, mapIntervals,
                   mapInflight, pollInflight, stopClicks, lastGood, trackVars,
                   statusVars, analyticsVars>>

(***************************************************************************)
(* RouteAnalytics                                                          *)
(*                                                                         *)
(* calculateAnalytics computes with JavaScript numbers; the model computes *)
(* with exact fractions (numerator n over a positive denominator d) and    *)
(* rounds where the code calls Math.round. fuelEfficiency, which the code  *)
(* rounds to two decimals, is carried in hundredths.                       *)
(***************************************************************************)
MaxSpeedConsidered == 40
MaxOccupancyConsidered == 35
OnTimeToleranceMinutes == 2
RevenuePerPassenger == 25

Rat(n, d) == [n |-> n, d |-> d]

RatAdd(a, b) == Rat(a.n * b.d + b.n * a.d, a.d * b.d)

RatMul(a, b) == Rat(a.n * b.n, a.d * b.d)

\* a / b for a positive b.
RatDiv(a, b) == Rat(a.n * b.d, a.d * b.n)

RatLess(a, b) == a.n * b.d < b.n * a.d

MathMin(a, b) == IF RatLess(b, a) THEN b ELSE a

MathMax(a, b) == IF RatLess(a, b) THEN b ELSE a

\* Math.round: the nearest integer, a half rounded up.
MathRound(a) == (2 * a.n + a.d) \div (2 * a.d)

\* vehicles.filter(v => v.route_id === route.id)
routeVehicles(route, vs) == SelectSeq(vs, LAMBDA v : v.route_id = route.id)

\* The filter without the test of the status.
activeVehiclesAnyStatus(route, vs) == routeVehicles(route, vs)

\* routeVehicles.filter(v => v.status === 'active')
activeVehicles(route, vs) ==
    SelectSeq(routeVehicles(route, vs), LAMBDA v : v.status = "active")

avgSpeed(active) ==
    IF Len(active) > 0 THEN Rat(SumField(active, "speed"), Len(active))
    ELSE Rat(0, 1)

avgOccupancy(active) ==
    IF Len(active) > 0 THEN Rat(SumField(active, "occupancy"), Len(active))
    ELSE Rat(0, 1)

onTimeVehicles(active) ==
    Len(SelectSeq(active, LAMBDA v : MathAbs(v.delay) <= OnTimeToleranceMinutes))

\* The percentage with 0 for a route without active vehicles.
onTimePercentageZeroWhenEmpty(active) ==
    IF Len(active) > 0
    THEN RatMul(Rat(onTimeVehicles(active), Len(active)), Rat(100, 1))
    ELSE Rat(0, 1)

onTimePercentage(active) ==
    IF Len(active) > 0
    THEN RatMul(Rat(onTimeVehicles(active), Len(active)), Rat(100, 1))
    ELSE Rat(100, 1)

\* activeVehicles.reduce((sum, v) => sum + Math.max(0, v.delay), 0)
RECURSIVE totalDelayMinutes(_)
totalDelayMinutes(active) ==
    IF active = << >> THEN 0
    ELSE (IF Head(active).delay > 0 THEN Head(active).delay ELSE 0)
             + totalDelayMinutes(Tail(active))

\* The speed score without Math.min.
speedScoreUncapped(speed) ==
    RatMul(RatDiv(speed, Rat(MaxSpeedConsidered, 1)), Rat(30, 1))

speedScore(speed) ==
    RatMul(MathMin(RatDiv(speed, Rat(MaxSpeedConsidered, 1)), Rat(1, 1)), Rat(30, 1))

onTimeScore(pct) == RatMul(RatDiv(pct, Rat(100, 1)), Rat(40, 1))

occupancyScore(occupancy) ==
    RatMul(MathMin(RatDiv(occupancy, Rat(MaxOccupancyConsidered, 1)), Rat(1, 1)),
           Rat(30, 1))

efficiency(active) ==
    RatAdd(RatAdd(speedScore(avgSpeed(active)), onTimeScore(onTimePercentage(active))),
           occupancyScore(avgOccupancy(active)))

\* efficiency > 80 ? 'excellent' : efficiency > 60 ? 'good' : ...
efficiencyStatus(e) ==
    IF RatLess(Rat(80, 1), e) THEN "excellent"
    ELSE IF RatLess(Rat(60, 1), e) THEN "good"
    ELSE IF RatLess(Rat(40, 1), e) THEN "fair"
    ELSE "poor"

\* routeAnalytics[route.id] = {...}: the record of one route.
RouteRecord(route, vs) ==
    LET active == activeVehicles(route, vs)
    IN  [route |-> route,
         activeVehicles |-> Len(active),
         totalVehicles |-> Len(routeVehicles(route, vs)),
         avgSpeed |-> MathRound(avgSpeed(active)),
         avgOccupancy |-> MathRound(avgOccupancy(active)),
         onTimePercentage |-> MathRound(onTimePercentage(active)),
         totalDelayMinutes |-> totalDelayMinutes(active),
         efficiency |-> MathRound(efficiency(active)),
         status |-> efficiencyStatus(efficiency(active)),
         estimatedRevenue |->
             MathRound(RatMul(RatMul(avgOccupancy(active), Rat(Len(active), 1)),
                              Rat(RevenuePerPassenger, 1))),
         fuelEfficiency |->
             MathRound(RatMul(RatDiv(Rat(route.distance, 1),
                                     MathMax(avgSpeed(active), Rat(1, 1))),
                              Rat(100, 1)))]

\* calculateAnalytics: the value handed to setAnalytics, as Object.values
\* lists it: one record per route, in the order of routes (the ids of the
\* routes are distinct and are not integer-like keys).
calculateAnalytics(rts, vs) == [i \in 1..Len(rts) |-> RouteRecord(rts[i], vs)]

\* The effect on [routes, vehicles, timeRange]: calculateAnalytics runs when
\* both lists are non-empty, otherwise analytics stays as it is.
AnalyticsEffect(rts, vs, prev) ==
    IF Len(rts) > 0 /\ Len(vs) > 0 THEN calculateAnalytics(rts, vs) ELSE prev

SortKeys == {"efficiency", "revenue", "onTime", "occupancy"}

TimeRanges == {"1h", "24h", "7d", "30d"}

\* The comparator with its operands exchanged: ascending order.
compareAscending(a, b, by) ==
    CASE by = "efficiency" -> a.efficiency - b.efficiency
      [] by = "revenue" -> a.estimatedRevenue - b.estimatedRevenue
      [] by = "onTime" -> a.onTimePercentage - b.onTimePercentage
      [] by = "occupancy" -> a.avgOccupancy - b.avgOccupancy
      [] OTHER -> 0

\* The comparator handed to sort.
compare(a, b, by) ==
    CASE by = "efficiency" -> b.efficiency - a.efficiency
      [] by = "revenue" -> b.estimatedRevenue - a.estimatedRevenue
      [] by = "onTime" -> b.onTimePercentage - a.onTimePercentage
      [] by = "occupancy" -> b.avgOccupancy - a.avgOccupancy
      [] OTHER -> 0

\* Array.prototype.sort is stable: x goes after every element of the sorted
\* list that the comparator does not place after x.
RECURSIVE InsertSorted(_, _, _)
InsertSorted(sorted, x, by) ==
    IF sorted = << >> THEN << x >>
    ELSE IF compare(Head(sorted), x, by) > 0 THEN << x >> \o sorted
    ELSE << Head(sorted) >> \o InsertSorted(Tail(sorted), x, by)

RECURSIVE ArraySort(_, _)
ArraySort(list, by) ==
    IF list = << >> THEN << >>
    ELSE InsertSorted(ArraySort(SubSeq(list, 1, Len(list) - 1), by),
                      list[Len(list)], by)

\* const sortedRoutes = Object.values(analytics).sort(...)
sortedRoutes == ArraySort(analytics, sortBy)

AnalyticsInitial ==
    /\ aRoutes = << >>
    /\ aVehicles = << >>
    /\ aLoading = TRUE
    /\ analytics = << >>
    /\ timeRange = "24h"
    /\ sortBy = "efficiency"
    /\ aIntervals = 0
    /\ aInflight = {}

AnalyticsReset ==
    /\ aRoutes' = << >>
    /\ aVehicles' = << >>
    /\ aLoading' = TRUE
    /\ analytics' = << >>
    /\ timeRange' = "24h"
    /\ sortBy' = "efficiency"
    /\ aIntervals' = 0
    /\ aInflight' = {}

\* setInterval(fetchData, 60000) fires: fetchData up to its await.
AnalyticsIntervalTick(L) ==
    /\ page = "analytics"
    /\ aIntervals > 0
    /\ issued < L.requests
    /\ issued' = issued + 1
    /\ aInflight' = aInflight \cup {[seq |-> issued + 1]}
    /\ ev' = [op |-> "AnalyticsIntervalTick", seq |-> issued + 1]
    /\ UNCHANGED <<page, now, orphans, routeOptimization, appActiveVehicles, aRoutes, aVehicles,
                   aLoading, analytics, timeRange, sortBy, aIntervals, statusVars,
                   mapVars>>

\* fetchData after the await, Promise.all resolved with d.
AnalyticsFetchResolved(r, d) ==
    /\ page = "analytics"
    /\ r \in aInflight
    /\ aInflight' = aInflight \ {r}
    /\ aRoutes' = d.routes
    /\ aVehicles' = d.vehicles
    /\ aLoading' = FALSE
    /\ analytics' = AnalyticsEffect(d.routes, d.vehicles, analytics)
    /\ ev' = [op |-> "AnalyticsFetchResolved", seq |-> r.seq]
    /\ UNCHANGED <<page, now, issued, orphans, routeOptimization, appActiveVehicles, timeRange, sortBy,
                   aIntervals, statusVars, mapVars>>

\* fetchData after the await, Promise.all rejected: the catch block only logs.
AnalyticsFetchRejected(r, failed) ==
    /\ page = "analytics"
    /\ r \in aInflight
    /\ aInflight' = aInflight \ {r}
    /\ aLoading' = FALSE
    /\ ev' = [op |-> "AnalyticsFetchRejected", seq |-> r.seq, failed |-> failed]
    /\ UNCHANGED <<page, now, issued, orphans, routeOptimization, appActiveVehicles, aRoutes,
                   aVehicles, analytics, timeRange, sortBy, aIntervals, statusVars,
                   mapVars>>

\* onChange of the time range selector: the effect runs again.
SetTimeRange(value) ==
    /\ page = "analytics"
    /\ ~aLoading
    /\ value # timeRange
    /\ timeRange' = value
    /\ analytics' = AnalyticsEffect(aRoutes, aVehicles, analytics)
    /\ ev' = [op |-> "SetTimeRange"]
    /\ UNCHANGED <<page, now, issued, orphans, routeOptimization, appActiveVehicles, aRoutes,
                   aVehicles, aLoading, sortBy, aIntervals, aInflight, statusVars,
                   mapVars>>

\* onChange of the sort selector.
SetSortBy(value) ==
    /\ page = "analytics"
    /\ ~aLoading
    /\ value # sortBy
    /\ sortBy' = value
    /\ ev' = [op |-> "SetSortBy"]
    /\ UNCHANGED <<page, now, issued, orphans, routeOptimization, appActiveVehicles, aRoutes,
                   aVehicles, aLoading, analytics, timeRange, aIntervals, aInflight,
                   statusVars, mapVars>>

(***************************************************************************)
(* The router, the clock and the network.                                  *)
(***************************************************************************)

\* The cleanup functions of the mounted page's effects: its intervals are
\* cleared, its requests stay in flight, its state is gone.
Unmount ==
    /\ orphans' = orphans + Cardinality(healthInflight) + Cardinality(mapInflight)
                    + Cardinality(pollInflight) + Cardinality(optInflight)
                    + Cardinality(trackInflight) + Cardinality(aInflight)

\* SystemStatusPage mounts: the effect fetches and starts the interval.
StatusMount(L) ==
    /\ issued < L.requests
    /\ issued' = issued + 1
    /\ healthInflight' = {HealthRequest(FALSE)}
    /\ healthIntervals' = << TRUE >>
    /\ healthData' = Null
    /\ loading' = TRUE
    /\ refreshing' = FALSE
    /\ refreshTimeouts' = 0
    /\ autoRefresh' = TRUE
    /\ historicalData' = EmptyHistory
    /\ systemAlerts' = << >>
    /\ histLog' = << >>
    /\ stopSeq' = 0
    /\ rejected' = 0
    /\ MapReset
    /\ AnalyticsReset

\* LiveMapPage mounts: the mount effect calls fetchMapData and starts both
\* intervals, the effect on lastUpdate calls fetchMapData again.
MapMount(L) ==
    /\ issued + 2 <= L.requests
    /\ issued' = issued + 2
    /\ mapInflight' = {[seq |-> issued + 1], [seq |-> issued + 2]}
    /\ mapIntervals' = {"vehicle", "notification"}
    /\ stops' = << >>
    /\ routes' = << >>
    /\ vehicles' = << >>
    /\ mapLoading' = TRUE
    /\ optimizedRoutes' = << >>
    /\ notifications' = << >>
    /\ pollInflight' = {}
    /\ optInflight' = {}
    /\ stopClicks' = 0
    /\ lastGood' = NoLastGood
    /\ mapStats' = InitialMapStats
    /\ selectedVehicle' = NullId
    /\ trackingData' = Null
    /\ trackInflight' = {}
    /\ trackClicks' = 0
    /\ trackWanted' = NullId
    /\ StatusReset
    /\ AnalyticsReset

\* RouteAnalytics mounts: fetchData and the interval.
AnalyticsMount(L) ==
    /\ issued < L.requests
    /\ issued' = issued + 1
    /\ aInflight' = {[seq |-> issued + 1]}
    /\ aIntervals' = 1
    /\ aRoutes' = << >>
    /\ aVehicles' = << >>
    /\ aLoading' = TRUE
    /\ analytics' = << >>
    /\ timeRange' = "24h"
    /\ sortBy' = "efficiency"
    /\ StatusReset
    /\ MapReset

\* The router shows page p: the mounted page, if any, unmounts and p mounts.
Navigate(p, L) ==
    /\ page # p
    /\ page' = p
    /\ Unmount
    /\ CASE p = "status" -> StatusMount(L)
         [] p = "map" -> MapMount(L)
         [] p = "analytics" -> AnalyticsMount(L)
         [] p = "none" -> StatusReset /\ MapReset /\ AnalyticsReset /\ UNCHANGED issued
    /\ ev' = [op |-> "Navigate", to |-> p]
    /\ UNCHANGED <<now, routeOptimization, appActiveVehicles>>

\* A request whose page is gone settles: nothing to update.
OrphanSettled ==
    /\ orphans > 0
    /\ orphans' = orphans - 1
    /\ ev' = [op |-> "OrphanSettled"]
    /\ UNCHANGED <<page, now, issued, routeOptimization, appActiveVehicles, statusVars, mapVars,
                   analyticsVars>>

\* Time passes. The clock is read for timestamps and for the age of a
\* notification only, so it runs in the specifications that look at them
\* (SpecHistory, SpecAlerts) and stands still in the others.
Tick(L) ==
    /\ now < L.ticks * TickMs
    /\ now' = now + TickMs
    /\ ev' = [op |-> "Tick"]
    /\ UNCHANGED <<page, issued, orphans, routeOptimization, appActiveVehicles, statusVars, mapVars,
                   analyticsVars>>

Init ==
    /\ page = "none"
    /\ now = 0
    /\ issued = 0
    /\ orphans = 0
    /\ ev = [op |-> "init"]
    /\ routeOptimization = FALSE
    /\ appActiveVehicles = TRUE
    /\ StatusInitial
    /\ MapInitial
    /\ AnalyticsInitial

\* The steps of the application within the limits L, with the pages ps
\* reachable through the router.
App(L, ps) ==
    \/ \E p \in ps \cup {"none"} : Navigate(p, L)
    \/ OrphanSettled

StatusPage(L) ==
    \/ HealthIntervalTick(L)
    \/ handleRefresh(L)
    \/ ToggleAutoRefresh(L)
    \/ \E r \in healthInflight :
         \E h \in HealthAnswers(L, r.seq) : HealthResolved(r, h)
    \/ \E r \in healthInflight : HealthRejected(r, L)
    \/ RefreshTimeout

\* The map page's fetches and notifications.
MapFetching(L) ==
    \/ SidebarRefresh(L)
    \/ NotificationCheck(L)
    \/ \E r \in mapInflight, d \in L.mapData : MapFetchResolved(r, d, L)
    \/ \E r \in mapInflight, k \in Kinds, d \in L.mapData :
         MapFetchRejected(r, k, d, L)

\* Clicks on the stops of the map.
MapClicks(L) == \E i \in DOMAIN stops : handleStopClick(stops[i], L)

\* The map page's vehicle polling.
MapPolling(L) ==
    \/ VehicleIntervalTick(L)
    \/ \E r \in pollInflight, v \in VehicleLists : VehiclePollResolved(r, v, L)
    \/ \E r \in pollInflight : VehiclePollRejected(r)

\* Route optimization on the map page.
MapOptimizing(L) ==
    \/ ToggleOptimization(L)
    \/ \E r \in optInflight, res \in OptimizationResults : OptimizeResolved(r, res, L)
    \/ \E r \in optInflight : OptimizeRejected(r, L)

\* Vehicle tracking on the map page.
MapTracking(L) ==
    \/ \E i \in DOMAIN vehicles : handleVehicleTrack(vehicles[i].id, L)
    \/ \E r \in trackInflight :
         \E data \in TrackingResults(r.vehicleId) : TrackResolved(r, data, L)
    \/ \E r \in trackInflight : TrackRejected(r, L)
    \/ CancelTracking(L)
    \/ ToggleVehicles(L)

MapPage(L) == MapFetching(L) \/ MapClicks(L) \/ MapPolling(L) \/ MapOptimizing(L)

AnalyticsPage(L) ==
    \/ AnalyticsIntervalTick(L)
    \/ \E r \in aInflight, d \in L.analyticsData : AnalyticsFetchResolved(r, d)
    \/ \E r \in aInflight, k \in {"routes", "vehicles"} : AnalyticsFetchRejected(r, k)

AppLimits ==
    [requests |-> MaxRequests, sequential |-> FALSE, failures |-> MaxRequests,
     rotate |-> FALSE, health |-> HealthPayloads, mapData |-> MapData,
     analyticsData |-> AnalyticsData, clicks |-> MaxClicks,
     trackClicks |-> MaxTrackClicks, ticks |-> MaxTicks]

StatusLimits == [AppLimits EXCEPT !.requests = MaxStatusRequests,
                                  !.failures = MaxStatusRequests]

HistoryLimits ==
    [AppLimits EXCEPT !.requests = MaxHistFetches, !.sequential = TRUE,
                      !.failures = MaxHistFailures, !.rotate = TRUE]

MapLimits == [AppLimits EXCEPT !.requests = MaxMapRequests]

TrackLimits == [AppLimits EXCEPT !.requests = MaxTrackRequests,
                                 !.mapData = TrackMapData]

AnalyticsLimits == [AppLimits EXCEPT !.requests = MaxAnalyticsRequests,
                                     !.analyticsData = FleetData]

\* A backend whose database is down and whose map shows one stop and no
\* vehicle.
AlertLimits ==
    [AppLimits EXCEPT !.requests = MaxAlertRequests,
                      !.failures = MaxAlertRequests,
                      !.health = << HealthPayloads[4] >>,
                      !.mapData = {CHOOSE d \in MapData : d.vehicles = << >>},
                      !.clicks = MaxAlertClicks]

Next == App(AppLimits, Pages) \/ StatusPage(AppLimits) \/ MapPage(AppLimits)
            \/ AnalyticsPage(AppLimits)

NextStatus == App(StatusLimits, {"status"}) \/ StatusPage(StatusLimits)

NextHistory ==
    \/ Navigate("status", HistoryLimits)
    \/ Tick(HistoryLimits)
    \/ HealthIntervalTick(HistoryLimits)
    \/ \E r \in healthInflight :
         \E h \in HealthAnswers(HistoryLimits, r.seq) : HealthResolved(r, h)
    \/ \E r \in healthInflight : HealthRejected(r, HistoryLimits)

NextMap == App(MapLimits, {"map"}) \/ MapFetching(MapLimits)
               \/ MapPolling(MapLimits) \/ MapOptimizing(MapLimits)

\* The selectors of the analytics page.
AnalyticsControls ==
    \/ \E value \in TimeRanges : SetTimeRange(value)
    \/ \E value \in SortKeys : SetSortBy(value)

NextAnalytics == App(AnalyticsLimits, {"analytics"}) \/ AnalyticsPage(AnalyticsLimits)
                     \/ AnalyticsControls

NextTracking == App(TrackLimits, {"map"}) \/ MapFetching(TrackLimits)
                    \/ MapTracking(TrackLimits)

NextAlerts ==
    \/ App(AlertLimits, {"status", "map"})
    \/ Tick(AlertLimits)
    \/ HealthIntervalTick(AlertLimits)
    \/ \E r \in healthInflight :
         \E h \in HealthAnswers(AlertLimits, r.seq) : HealthResolved(r, h)
    \/ \E r \in healthInflight : HealthRejected(r, AlertLimits)
    \/ MapFetching(AlertLimits)
    \/ MapClicks(AlertLimits)

\* The application: the three pages behind the router, their fetches, polls
\* and optimizations; vehicle tracking and the selectors of the analytics
\* page have specifications of their own.
Spec == Init /\ [][Next]_vars

\* The status page alone.
SpecStatus == Init /\ [][NextStatus]_vars

\* The status page left to its timer over a long run: one request at a time,
\* the answers rotate through HealthPayloads and few requests fail.
SpecHistory == Init /\ [][NextHistory]_vars

\* The analytics page alone, in front of a fleet on three routes.
SpecAnalytics == Init /\ [][NextAnalytics]_vars

\* The map page with its vehicles tracked, without vehicle polling and route
\* optimization.
SpecTracking == Init /\ [][NextTracking]_vars

\* The map page alone, its stops not clicked.
SpecMap == Init /\ [][NextMap]_vars

\* The status page and the map page in front of a degraded backend while
\* time passes, without vehicle polling and route optimization.
SpecAlerts == Init /\ [][NextAlerts]_vars

(***************************************************************************)
(* Properties.                                                             *)
(***************************************************************************)
InflightFor(id) == {r \in optInflight : r.routeId = id}

\* C1: for every route id at most one optimization request is in flight at
\* any time: a further trigger for a route whose request has not completed
\* issues no second request.
C1_SingleFlightOptimization ==
    \A id \in RouteIds : Cardinality(InflightFor(id)) <= 1

HistoryCapacity == 20

SeriesNames == {"apiRequests", "dbQueries", "vehicleCount", "systemLoad",
                "responseTime"}

\* The metric of a health payload that a series charts.
SeriesMetric(name, d) ==
    CASE name = "apiRequests" -> d.advanced_metrics.requests_per_minute
      [] name = "dbQueries" -> d.advanced_metrics.database_queries_per_minute
      [] name = "vehicleCount" -> d.active_vehicles
      [] name = "systemLoad" -> d.advanced_metrics.system_load
      [] name = "responseTime" -> d.api_response_time

\* C2: each of the five history series holds at most 20 points, and they are
\* the points of the most recent (up to 20) health payloads applied, oldest
\* first.
C2_HistoryHoldsLatest ==
    \A name \in SeriesNames :
        LET series == historicalData[name]
            n == Len(histLog)
            kept == Min(n, HistoryCapacity)
        IN  /\ Len(series) <= HistoryCapacity
            /\ Len(series) = kept
            /\ \A i \in 1..kept :
                 /\ series[i].time = histLog[n - kept + i].time
                 /\ series[i].value = SeriesMetric(name, histLog[n - kept + i].data)

\* C2 witness: more than 20 payloads have been applied and the series is full.
C2_Witness ==
    /\ Len(histLog) > HistoryCapacity
    /\ Len(historicalData.responseTime) = HistoryCapacity
    /\ historicalData.responseTime[1].value # historicalData.responseTime[2].value

ListCapacity == 5

\* next is prev with one entry inserted in front, the last one dropped if
\* prev was full.
InsertedInFront(prev, next) ==
    /\ Len(next) = Min(Len(prev) + 1, ListCapacity)
    /\ \A i \in 2..Len(next) : next[i] = prev[i - 1]

\* C3: the alert list and the notification list never hold more than 5
\* entries, and an insertion (addAlert after a failed health fetch,
\* addNotification after a failed map fetch or a stop click) puts the new
\* entry first, keeps the others in order and drops the last one of a full
\* list.
C3_BoundedNewestFirst ==
    /\ [](Len(systemAlerts) <= ListCapacity /\ Len(notifications) <= ListCapacity)
    /\ [][/\ ev'.op = "HealthRejected" =>
                /\ InsertedInFront(systemAlerts, systemAlerts')
                /\ systemAlerts'[1].type = "error"
                /\ systemAlerts'[1].timestamp = now
          /\ ev'.op \in {"MapFetchRejected", "handleStopClick", "OptimizeResolved",
                         "OptimizeRejected"} =>
                /\ InsertedInFront(notifications, notifications')
                /\ notifications'[1].timestamp = now]_vars

\* C3 witness: four threshold alerts, then two failed fetches: the list is
\* full and the oldest alert (the database one) has been dropped.
C3_Witness ==
    /\ ev.op = "HealthRejected"
    /\ Len(systemAlerts) = ListCapacity
    /\ systemAlerts[1].message = "Failed to fetch system health data"
    /\ systemAlerts[2].message = "Failed to fetch system health data"
    /\ systemAlerts[3].message = "High system load"
    /\ systemAlerts[5].message = "Slow API response"

Snapshots == [stops |-> stops, routes |-> routes, vehicles |-> vehicles]

C5_FailureLeavesOtherKinds ==
    [][/\ ev'.op = "MapFetchRejected" =>
              \A k \in Kinds \ {ev'.failed} : Snapshots'[k] = Snapshots[k]
       /\ ev'.op = "VehiclePollRejected" => stops' = stops /\ routes' = routes
       /\ ev'.op = "AnalyticsFetchRejected" =>
              IF ev'.failed = "routes" THEN aVehicles' = aVehicles
              ELSE aRoutes' = aRoutes
       /\ ev'.op = "HealthRejected" =>
              Snapshots' = Snapshots /\ aRoutes' = aRoutes /\ aVehicles' = aVehicles]_vars

\* C5 witness: a combined refresh has failed on a page that had loaded its
\* three lists; they are all still there.
C5_Witness ==
    /\ ev.op = "MapFetchRejected"
    /\ stops # << >>
    /\ routes # << >>
    /\ vehicles # << >>

\* C6: the result of a health fetch that was in flight when polling was
\* stopped (and is still stopped) is dropped: the health snapshot, the
\* history and the alert list are as they were; so is the result of a request
\* that outlived its page.
C6_LateResultDropped ==
    [][/\ (/\ ev'.op \in {"HealthResolved", "HealthRejected"}
           /\ stopSeq > 0
           /\ stopSeq' = stopSeq
           /\ ev'.seq <= stopSeq) =>
              UNCHANGED <<healthData, historicalData, systemAlerts>>
       /\ ev'.op = "OrphanSettled" =>
              UNCHANGED <<healthData, historicalData, systemAlerts, stops, routes,
                          vehicles, mapStats>>]_vars

\* C7: no two fetches of the same data kind are in flight together.
C7_NoOverlappingFetches ==
    /\ Cardinality(healthInflight) <= 1
    /\ Cardinality(mapInflight \cup pollInflight) <= 1
    /\ Cardinality(aInflight) <= 1

\* C8: once no fetch of a kind is in flight on the map page, the stored
\* snapshot of that kind is the answer to the most recently issued fetch
\* among those that succeeded.
C8_LatestIssuedWins ==
    /\ mapInflight = {} =>
          /\ stops = lastGood["stops"].data
          /\ routes = lastGood["routes"].data
    /\ mapInflight \cup pollInflight = {} => vehicles = lastGood["vehicles"].data

\* The number of alerts of the given type and message.
AlertCount(alerts, type, message) ==
    Cardinality({i \in DOMAIN alerts :
                    alerts[i].type = type /\ alerts[i].message = message})

Bit(b) == IF b THEN 1 ELSE 0

\* C9: right after a successful health fetch the alert list holds exactly
\* one alert per violated rule: a warning iff system load > 0.8, a warning
\* iff memory usage > 0.8, an error iff the response time > 1000 ms, an error
\* iff the database is not connected; for load 0.85, memory 0.5, response time
\* 300 and a connected database it is the single warning about system load.
C9_AlertsMatchRules ==
    [][ev'.op = "HealthResolved" =>
        LET d == ev'.data
            m == d.advanced_metrics
            a == systemAlerts'
        IN  /\ AlertCount(a, "warning", "High system load") = Bit(m.system_load > 80)
            /\ AlertCount(a, "warning", "High memory usage") = Bit(m.memory_usage > 80)
            /\ AlertCount(a, "error", "Slow API response")
                  = Bit(d.api_response_time > 1000)
            /\ AlertCount(a, "error", "Database connection lost")
                  = Bit(~d.database_connected)
            /\ Len(a) = Bit(m.system_load > 80) + Bit(m.memory_usage > 80)
                          + Bit(d.api_response_time > 1000)
                          + Bit(~d.database_connected)
            /\ (/\ m.system_load = 85 /\ m.memory_usage = 50
                /\ d.api_response_time = 300 /\ d.database_connected) =>
                   /\ Len(a) = 1
                   /\ a[1].type = "warning"
                   /\ a[1].message = "High system load"]_vars

\* C9 witness: the payload of the example has been applied.
C9_Witness ==
    /\ ev.op = "HealthResolved"
    /\ ev.data.advanced_metrics.system_load = 85
    /\ ev.data.advanced_metrics.memory_usage = 50
    /\ ev.data.api_response_time = 300
    /\ ev.data.database_connected
    /\ Len(systemAlerts) = 1

AnyAlert(type) == \E i \in DOMAIN systemAlerts : systemAlerts[i].type = type

\* C10: the overall status is unhealthy if an error alert is present,
\* otherwise warning if a warning alert is present, otherwise the status of
\* the stored health snapshot.
C10_OverallStatus ==
    overallStatus = IF AnyAlert("error") THEN "unhealthy"
                    ELSE IF AnyAlert("warning") THEN "warning"
                    ELSE Field(healthData, "status")

\* C10 witness: only warnings are present over a snapshot that reports
\* healthy, and the status shown is warning.
C10_Witness ==
    /\ ~loading
    /\ AnyAlert("warning")
    /\ ~AnyAlert("error")
    /\ healthData.status = "healthy"
    /\ overallStatus = "warning"

\* The rule behind a threshold alert is violated by the health payload d.
RuleViolated(message, d) ==
    CASE message = "High system load" ->
             d.advanced_metrics.system_load > SystemLoadThreshold
      [] message = "High memory usage" ->
             d.advanced_metrics.memory_usage > MemoryUsageThreshold
      [] message = "Slow API response" ->
             d.api_response_time > ResponseTimeThreshold
      [] message = "Database connection lost" -> ~d.database_connected
      [] OTHER -> FALSE

\* C11: after every health cycle the alert list holds only alerts of that
\* cycle: after a successful one, alerts whose rule its payload violates;
\* after a failed one, the alert about that failure and nothing computed by
\* an earlier cycle.
C11_AlertsOfLastCycleOnly ==
    [][/\ ev'.op = "HealthResolved" =>
              \A i \in DOMAIN systemAlerts' :
                  RuleViolated(systemAlerts'[i].message, ev'.data)
       /\ ev'.op = "HealthRejected" =>
              /\ Len(systemAlerts') = 1
              /\ systemAlerts'[1].message = "Failed to fetch system health data"]_vars

\* calculateAnalytics has just run on the lists the page holds.
Calculated ==
    /\ ev'.op \in {"AnalyticsFetchResolved", "SetTimeRange"}
    /\ aRoutes' # << >>
    /\ aVehicles' # << >>

\* The active vehicles of a route among the vehicles vs.
ActiveOn(route, vs) ==
    SelectSeq(vs, LAMBDA v : v.route_id = route.id /\ v.status = "active")

\* num / den rounded to the nearest integer, a half rounded up.
RoundDiv(num, den) == (2 * num + den) \div (2 * den)

\* C12: the record of a route without active vehicles has on-time
\* percentage 100, average speed 0, average occupancy 0 and fuel efficiency
\* distance / 1 (100 * distance in hundredths).
C12_NoActiveVehicles ==
    [][Calculated =>
        /\ Len(analytics') = Len(aRoutes')
        /\ \A i \in DOMAIN aRoutes' :
             LET rec == analytics'[i]
             IN  /\ rec.route = aRoutes'[i]
                 /\ ActiveOn(aRoutes'[i], aVehicles') = << >> =>
                      /\ rec.activeVehicles = 0
                      /\ rec.onTimePercentage = 100
                      /\ rec.avgSpeed = 0
                      /\ rec.avgOccupancy = 0
                      /\ rec.fuelEfficiency = 100 * aRoutes'[i].distance]_vars

\* C12 witness: the records of a route without vehicles and of a route whose
\* only vehicle is not active.
C12_Witness ==
    /\ ev.op = "AnalyticsFetchResolved"
    /\ Len(analytics) = 3
    /\ analytics[2].totalVehicles = 0
    /\ analytics[2].onTimePercentage = 100
    /\ analytics[2].fuelEfficiency = 800
    /\ analytics[3].totalVehicles = 1
    /\ analytics[3].activeVehicles = 0
    /\ analytics[3].fuelEfficiency = 700

\* The efficiency score of n > 0 active vehicles with speeds adding up to s,
\* occupancies to o, and t of them on time, as a fraction over 28 * n:
\* min(s / n / 40, 1) * 30 + t / n * 40 + min(o / n / 35, 1) * 30.
ScoreNumerator(n, s, o, t) ==
    21 * Min(s, 40 * n) + 1120 * t + 24 * Min(o, 35 * n)

\* C13: the efficiency of every record is speedScore + onTimeScore +
\* occupancyScore rounded, and the score lies between 0 and 100.
C13_EfficiencyScore ==
    [][Calculated =>
        \A i \in DOMAIN aRoutes' :
            LET active == ActiveOn(aRoutes'[i], aVehicles')
                n == Len(active)
                t == Cardinality({k \in DOMAIN active : active[k].delay \in -2..2})
                num == ScoreNumerator(n, SumField(active, "speed"),
                                      SumField(active, "occupancy"), t)
                rec == analytics'[i]
            IN  IF n = 0 THEN rec.efficiency = 40
                ELSE /\ rec.efficiency = RoundDiv(num, 28 * n)
                     /\ 0 <= num
                     /\ num <= 100 * 28 * n
                     /\ rec.efficiency \in 0..100]_vars

\* C13 witness: a route whose vehicles exceed both caps scores 100, next to
\* a route that scores 60.
C13_Witness ==
    /\ ev.op = "AnalyticsFetchResolved"
    /\ Len(analytics) = 3
    /\ analytics[1].avgSpeed > MaxSpeedConsidered
    /\ analytics[1].avgOccupancy > MaxOccupancyConsidered
    /\ analytics[1].efficiency = 100
    /\ analytics[2].efficiency = 60

\* C14: the derived fields follow the reference formulas over the active
\* vehicles of the route: on-time percentage from the vehicles with
\* |delay| <= 2, revenue round(avgOccupancy * active * 25), fuel efficiency
\* distance / max(avgSpeed, 1) to two decimals; distance 10 with active
\* vehicles (30, 0, 10) and (50, 6, 20) gives 40, 15, 50, good, 750 and 0.25.
C14_DerivedFields ==
    [][Calculated =>
        \A i \in DOMAIN aRoutes' :
            LET active == ActiveOn(aRoutes'[i], aVehicles')
                n == Len(active)
                s == SumField(active, "speed")
                o == SumField(active, "occupancy")
                t == Cardinality({k \in DOMAIN active : active[k].delay \in -2..2})
                rec == analytics'[i]
            IN  /\ rec.activeVehicles = n
                /\ rec.onTimePercentage = IF n = 0 THEN 100 ELSE RoundDiv(100 * t, n)
                /\ rec.estimatedRevenue = 25 * o
                /\ rec.fuelEfficiency =
                       IF s > n THEN RoundDiv(100 * aRoutes'[i].distance * n, s)
                       ELSE 100 * aRoutes'[i].distance
                /\ (/\ aRoutes'[i].distance = 10 /\ n = 2
                    /\ {<<active[k].speed, active[k].delay, active[k].occupancy>> :
                           k \in 1..2} = {<<30, 0, 10>>, <<50, 6, 20>>}) =>
                       /\ rec.avgSpeed = 40
                       /\ rec.avgOccupancy = 15
                       /\ rec.onTimePercentage = 50
                       /\ rec.status = "good"
                       /\ rec.estimatedRevenue = 750
                       /\ rec.fuelEfficiency = 25]_vars

\* C14 witness: the record of the example, on a route that also has a
\* vehicle which is not active.
C14_Witness ==
    /\ ev.op = "AnalyticsFetchResolved"
    /\ Len(analytics) = 3
    /\ analytics[1].route.distance = 10
    /\ analytics[1].totalVehicles = 3
    /\ analytics[1].activeVehicles = 2
    /\ analytics[1].estimatedRevenue = 750
    /\ analytics[1].fuelEfficiency = 25
    /\ analytics[1].status = "good"

\* The value a record is sorted by.
KeyOf(rec, by) ==
    CASE by = "efficiency" -> rec.efficiency
      [] by = "revenue" -> rec.estimatedRevenue
      [] by = "onTime" -> rec.onTimePercentage
      [] by = "occupancy" -> rec.avgOccupancy

\* C18: the displayed list holds the records of analytics, each once, in
\* non-increasing order of the selected key, records with equal keys in the
\* order they have in the unsorted list.
C18_SortedStable ==
    LET n == Len(analytics)
    IN  /\ Len(sortedRoutes) = n
        /\ \E f \in [1..n -> 1..n] :
             /\ \A i, j \in 1..n : i # j => f[i] # f[j]
             /\ \A i \in 1..n : sortedRoutes[i] = analytics[f[i]]
             /\ \A i, j \in 1..n :
                  i < j =>
                    /\ KeyOf(sortedRoutes[i], sortBy) >= KeyOf(sortedRoutes[j], sortBy)
                    /\ KeyOf(sortedRoutes[i], sortBy) = KeyOf(sortedRoutes[j], sortBy)
                           => f[i] < f[j]

\* C18 witness: sorted by revenue, the first and the third route earn the
\* same and more than the second: the third is displayed second, after the
\* first.
C18_Witness ==
    /\ sortBy = "revenue"
    /\ Len(analytics) = 3
    /\ analytics[1].estimatedRevenue = analytics[3].estimatedRevenue
    /\ analytics[2].estimatedRevenue < analytics[1].estimatedRevenue
    /\ sortedRoutes = << analytics[1], analytics[3], analytics[2] >>

\* C15: with optimization mode on, a render issues no optimize request for a
\* route whose result is stored, however often the page renders, and the
\* route is drawn with the stored optimized coordinates.
C15_StoredResultIsUsed ==
    /\ [][page' = "map" =>
            \A r \in optInflight' \ optInflight :
                r.routeId \notin DOMAIN optimizedRoutes']_vars
    /\ [](page = "map" /\ routeOptimization =>
            \A i \in DOMAIN routes :
                routes[i].id \in DOMAIN optimizedRoutes =>
                    /\ getRouteCoordinates(routes[i])
                          = optimizedRoutes[routes[i].id].optimized_coordinates
                    /\ getRouteCoordinates(routes[i]) # routes[i].coordinates)

\* C15 witness: the page has rendered again with the result of its only
\* route stored and optimization mode on; no request is in flight.
C15_Witness ==
    /\ page = "map"
    /\ ev.op = "NotificationCheck"
    /\ routeOptimization
    /\ ~mapLoading
    /\ Len(routes) = 1
    /\ routes[1].id \in DOMAIN optimizedRoutes
    /\ optInflight = {}

\* C16: a failed optimization request leaves the cache without an entry for
\* its route and the entries of the other routes as they were, and the
\* failure is shown as a notification.
C16_FailedOptimizationLeavesNoEntry ==
    [][ev'.op = "OptimizeRejected" =>
        /\ ev'.routeId \notin DOMAIN optimizedRoutes'
        /\ \A id \in DOMAIN optimizedRoutes \ {ev'.routeId} :
              id \in DOMAIN optimizedRoutes' /\ optimizedRoutes'[id] = optimizedRoutes[id]
        /\ notifications'[1].type = "error"
        /\ notifications'[1].message.text = "Error optimizing route"]_vars

\* C17: a failed fetch leaves the timer of its page running and issues no
\* fetch itself: the next fetch of that kind is the one of the next tick.
C17_FailureKeepsSchedule ==
    [][/\ ev'.op = "HealthRejected" =>
              /\ healthIntervals' = healthIntervals
              /\ healthInflight' \subseteq healthInflight
              /\ issued' = issued
       /\ ev'.op \in {"VehiclePollRejected", "MapFetchRejected"} =>
              /\ mapIntervals' = mapIntervals
              /\ "vehicle" \in mapIntervals'
              /\ pollInflight' \subseteq pollInflight
              /\ mapInflight' \subseteq mapInflight
       /\ ev'.op = "AnalyticsFetchRejected" =>
              /\ aIntervals' = aIntervals
              /\ aInflight' \subseteq aInflight
              /\ issued' = issued]_vars

\* C17 witness: the health fetch of the mount has failed, and the next tick
\* of the interval has issued the next one.
C17_Witness ==
    /\ page = "status"
    /\ ev.op = "HealthIntervalTick"
    /\ ev.seq > 0
    /\ rejected > 0
    /\ healthData = FailedHealthData
    /\ healthInflight = {[seq |-> ev.seq, showRefresh |-> FALSE]}

C21_RecordsOfCurrentSnapshot ==
    [][ev'.op = "AnalyticsFetchResolved" =>
           analytics' = calculateAnalytics(aRoutes', aVehicles')]_vars

\* The bucket of a stored score, as the efficiency bar of a route card picks
\* its colour (green, blue, yellow, red) from routeData.efficiency.
BarBucket(e) ==
    IF e > 80 THEN "excellent"
    ELSE IF e > 60 THEN "good"
    ELSE IF e > 40 THEN "fair"
    ELSE "poor"

\* C22: in every efficiency record the status agrees with the efficiency the
\* record stores: excellent iff efficiency > 80, good iff 60 < efficiency <= 80,
\* fair iff 40 < efficiency <= 60, poor otherwise; the status badge and the
\* efficiency bar of a route card show the same bucket.
C22_StatusAgreesWithScore ==
    \A i \in 1..Len(analytics) :
        analytics[i].status = BarBucket(analytics[i].efficiency)

\* C23: while the map page stays mounted, an optimization result stored for a
\* route id is never removed and never replaced: whatever toggle, render,
\* completion or failure happens, the entry of the route stays the result of
\* the first successful request, and the entries of other routes stay too.
C23_StoredResultIsKept ==
    [][(page = "map" /\ page' = "map" /\ ev'.op # "Navigate") =>
           \A id \in DOMAIN optimizedRoutes :
               /\ id \in DOMAIN optimizedRoutes'
               /\ optimizedRoutes'[id] = optimizedRoutes[id]]_vars

\* C24: after the user cancels tracking, and until the user clicks a vehicle
\* again, there is neither tracking data nor a selected vehicle, also when a
\* tracking request issued before the cancellation completes afterwards.
C24_CancelledStaysCancelled ==
    (page = "map" /\ trackWanted = NullId) =>
        (trackingData = Null /\ selectedVehicle = NullId)

\* The timers of the pages: the mounted page has one timer per purpose, a
\* page that is not mounted has none.
OneTimerPerPurpose ==
    /\ Len(healthIntervals) = (IF page = "status" THEN 1 ELSE 0)
    /\ mapIntervals = (IF page = "map" THEN {"vehicle", "notification"} ELSE {})
    /\ aIntervals = (IF page = "analytics" THEN 1 ELSE 0)

\* C25: at most one periodic timer per polling purpose is active for the
\* mounted page, whatever the number of auto-refresh toggles; once a page is
\* torn down none of its timers is active, and a fetch driven by a timer is
\* issued only by the timer of the page that is mounted.
C25_OneTimerPerPurpose ==
    [][/\ OneTimerPerPurpose'
       /\ ev'.op = "HealthIntervalTick" =>
              page = "status" /\ Len(healthIntervals) = 1
       /\ ev'.op = "VehicleIntervalTick" =>
              page = "map" /\ "vehicle" \in mapIntervals
       /\ ev'.op = "AnalyticsIntervalTick" =>
              page = "analytics" /\ aIntervals = 1]_vars

\* C25 witness: the auto-refresh switch was turned off and on again, and the
\* status page runs the one timer of its last effect.
C25_Witness ==
    /\ page = "status"
    /\ ev.op = "ToggleAutoRefresh"
    /\ autoRefresh
    /\ healthIntervals = << TRUE >>

\* C26: when a vehicle poll returns a vehicle with a delay above 5 minutes
\* whose delay was at most 5 in the vehicles stored just before the poll was
\* applied, a warning naming the vehicle is added; none is added for a
\* vehicle that was late already or is not late now.
C26_DelayCrossingIsNotified ==
    [][ev'.op = "VehiclePollResolved" =>
           notifications' = CheckDelayed(vehicles', vehicles, notifications, now)]_vars

\* C27: after n successful and any number of failed health fetches the five
\* history series have the same length, min(n, 20): a successful fetch
\* appends one point to every series (the oldest leaves a full series), a
\* failed fetch leaves every series as it is.
C27_SeriesLengths ==
    [][/\ \A name \in SeriesNames :
              Len(historicalData'[name]) = Min(Len(histLog'), HistoryCapacity)
       /\ ev'.op = "HealthResolved" =>
              /\ Len(histLog') = Len(histLog) + 1
              /\ \A name \in SeriesNames :
                     LET old == historicalData[name]
                         new == historicalData'[name]
                     IN  /\ Len(new) = Min(Len(old) + 1, HistoryCapacity)
                         /\ SubSeq(new, 1, Len(new) - 1)
                                = SubSeq(old, Len(old) - Len(new) + 2, Len(old))
       /\ ev'.op = "HealthRejected" =>
              UNCHANGED <<historicalData, histLog>>]_vars

\* C27 witness: a fetch fails after 20 successful ones; the series are full
\* and stay full.
C27_Witness ==
    /\ ev.op = "HealthRejected"
    /\ Len(histLog) = HistoryCapacity
    /\ \A name \in SeriesNames : Len(historicalData[name]) = HistoryCapacity

\* C28: when the user has clicked two different vehicles and both tracking
\* requests have completed with a result, one right after the other in either
\* order, the tracking data and the selected vehicle are those of the vehicle
\* clicked last.
C28_LastSelectionWins ==
    [][(/\ ev.op = "TrackResolved"
        /\ ev'.op = "TrackResolved"
        /\ ev.vehicleId # ev'.vehicleId
        /\ trackInflight' = {}
        /\ trackWanted \in {ev.vehicleId, ev'.vehicleId}) =>
           /\ selectedVehicle' = trackWanted
           /\ trackingData'.vehicle_id = trackWanted]_vars

\* C29: after every fetched vehicle list, the empty list included, the map
\* statistics are defined numbers: the active-vehicle count, the average
\* speed and the on-time percentage are not NaN, and the on-time percentage
\* lies between 0 and 100.
C29_StatsAreNumbers ==
    [][ev'.op \in {"MapFetchResolved", "VehiclePollResolved"} =>
           /\ mapStats'.activeVehicles \in 0..Len(vehicles')
           /\ ~mapStats'.averageSpeed.nan
           /\ ~mapStats'.onTimePerformance.nan
           /\ mapStats'.onTimePerformance.value \in 0..100]_vars

\* C30: while auto-refresh is switched off on the status page, only the
\* Refresh button issues a health fetch: a timer tick issues none, and
\* switching auto-refresh off or on issues none by itself.
C30_OnlyManualFetchesWhenOff ==
    [][/\ (ev'.op = "HealthIntervalTick" /\ ~autoRefresh) =>
              UNCHANGED <<issued, healthInflight>>
       /\ ev'.op = "ToggleAutoRefresh" =>
              UNCHANGED <<issued, healthInflight>>
       /\ (page = "status" /\ page' = "status" /\ ~autoRefresh /\ ~autoRefresh'
             /\ issued' # issued) =>
              ev'.op = "handleRefresh"]_vars

====
